---- MODULE Spec2Model ----
(***************************************************************************)
(* Model of the extract-symbols command of the data-processing pipeline    *)
(* (entities/symbols/commands/extract_symbols.py): load / process / save   *)
(* of ExtractSymbols, the span reconstruction get_tex nested in save, and  *)
(* the tables the command appends to.                                      *)
(*                                                                         *)
(* Strings are sequences of one-character strings; positions are 0-based   *)
(* as in Python (At(s, i) is s[i]).                                        *)
(***************************************************************************)
EXTENDS Integers, Sequences, FiniteSets, TLC

\* ------------------------------------------------------------------------
\* Bounds of the model
\* ------------------------------------------------------------------------
MaxPieces == 3      \* an equation text is a concatenation of at most this many pieces
MaxSymbols == 2     \* symbols in a generated forest
MaxRuns == 2        \* times the command is run on the same documents
MaxEquations == 2   \* equations of a document in a batch of two documents

\* ------------------------------------------------------------------------
\* Strings
\* ------------------------------------------------------------------------
At(s, i) == s[i + 1]

Min2(a, b) == IF a <= b THEN a ELSE b

Max2(a, b) == IF a >= b THEN a ELSE b

\* Python slicing s[a:b] for non-negative a, b (clamped to the length).
Slice(s, a, b) == SubSeq(s, Min2(a, Len(s)) + 1, Min2(b, Len(s)))

\* The characters the regular expression class \w accepts, among the
\* characters the model's texts are written with.
WordChars == {"a", "b", "c", "e", "f", "h", "i", "m", "r", "t", "x", "P", "_"}

\* str(n) for a non-negative integer, as a sequence of digit characters.
Digit(d) == CASE d = 0 -> "0" [] d = 1 -> "1" [] d = 2 -> "2" [] d = 3 -> "3"
              [] d = 4 -> "4" [] d = 5 -> "5" [] d = 6 -> "6" [] d = 7 -> "7"
              [] d = 8 -> "8" [] d = 9 -> "9"

RECURSIVE Str(_)
Str(n) == IF n < 10 THEN <<Digit(n)>> ELSE Str(n \div 10) \o <<Digit(n % 10)>>

\* f"{a}-{b}"
FormatId(a, b) == Str(a) \o <<"-">> \o Str(b)

\* ------------------------------------------------------------------------
\* get_tex: the regular expression  \\((math|text)\w+)\{
\* ------------------------------------------------------------------------
\* First position at or after i that is not a \w character (or the length).
RECURSIVE WordRunEnd(_, _)
WordRunEnd(eq, i) ==
    IF i < Len(eq) /\ At(eq, i) \in WordChars THEN WordRunEnd(eq, i + 1) ELSE i

\* match.end() of the match of the pattern that starts at p, or -1.
MatchEndAt(eq, p) ==
    IF /\ p + 5 < Len(eq)
       /\ At(eq, p) = "\\"
       /\ Slice(eq, p + 1, p + 5) \in {<<"m", "a", "t", "h">>, <<"t", "e", "x", "t">>}
    THEN LET j == WordRunEnd(eq, p + 5)
         IN IF j > p + 5 /\ j < Len(eq) /\ At(eq, j) = "{" THEN j + 1 ELSE -1
    ELSE -1

\* re.finditer: the non-overlapping matches, left to right, found from pos on,
\* each as <<match.start(), match.end()>>.
RECURSIVE FindIter(_, _)
FindIter(eq, pos) ==
    IF pos >= Len(eq) THEN <<>>
    ELSE IF MatchEndAt(eq, pos) # -1
         THEN <<(<<pos, MatchEndAt(eq, pos)>>)>> \o FindIter(eq, MatchEndAt(eq, pos))
         ELSE FindIter(eq, pos + 1)

\* The loop over the matches: a match that ends at start moves start to the
\* beginning of the match.
RECURSIVE AbsorbMacro(_, _, _)
AbsorbMacro(matches, k, start) ==
    IF k > Len(matches) THEN start
    ELSE AbsorbMacro(matches, k + 1,
                     IF matches[k][2] = start THEN matches[k][1] ELSE start)

\* The counter with its increment left out.
BraceCount_NoOpen(count, c) ==
    IF c = "}" /\ count > 0 THEN count - 1 ELSE count

\* One step of the open-brace counter.
BraceCount(count, c) ==
    IF c = "{" THEN count + 1
    ELSE IF c = "}" /\ count > 0 THEN count - 1
    ELSE count

\* The loop with the test i + 1 > end in place of i + 1 >= end.
RECURSIVE ScanEnd_Strict(_, _, _, _)
ScanEnd_Strict(eq, i, count, end) ==
    IF i >= Len(eq) THEN end
    ELSE LET c == BraceCount(count, At(eq, i))
         IN IF i + 1 > end /\ c = 0 THEN i + 1
            ELSE ScanEnd_Strict(eq, i + 1, c, end)

\* The loop over enumerate(equation[start:], start=start), from position i
\* with the given counter: the value of end when the loop is left.
RECURSIVE ScanEnd(_, _, _, _)
ScanEnd(eq, i, count, end) ==
    IF i >= Len(eq) THEN end
    ELSE LET c == BraceCount(count, At(eq, i))
         IN IF i + 1 >= end /\ c = 0 THEN i + 1
            ELSE ScanEnd(eq, i + 1, c, end)

\* The start of one token taken for the minimum.
MinStart_First(tokens, k) == tokens[k].start

\* min([t.start for t in s.tokens]), from the k-th token on.
RECURSIVE MinStart(_, _)
MinStart(tokens, k) ==
    IF k = Len(tokens) THEN tokens[k].start
    ELSE Min2(tokens[k].start, MinStart(tokens, k + 1))

\* max([t.end for t in s.tokens]), from the k-th token on.
RECURSIVE MaxEnd(_, _)
MaxEnd(tokens, k) ==
    IF k = Len(tokens) THEN tokens[k].end
    ELSE Max2(tokens[k].end, MaxEnd(tokens, k + 1))

\* get_tex(s, equation): (equation[start:end], start, end)
get_tex(s, equation) ==
    LET start == AbsorbMacro(FindIter(equation, 0), 1, MinStart(s.tokens, 1))
        end   == ScanEnd(equation, start, 0, MaxEnd(s.tokens, 1))
    IN [tex |-> Slice(equation, start, end), start |-> start, end |-> end]

\* ------------------------------------------------------------------------
\* Data: tokens, symbol nodes, the external tool's output
\* ------------------------------------------------------------------------
\* Optional[List[Node]]
None == [none |-> TRUE, list |-> <<>>]

Some(l) == [none |-> FALSE, list |-> l]

Range(s) == {s[k] : k \in 1..Len(s)}

SeqsUpTo(S, n) == UNION {[1..k -> S] : k \in 0..n}

\* A token of the parser: (text, token_index, start, end).
Token(text, token_index, start, end) ==
    [text |-> text, token_index |-> token_index, start |-> start, end |-> end]

\* A symbol node of the parser: element, child_symbols, tokens, defined.
Node(element, tokens, child_symbols, defined) ==
    [element |-> element, tokens |-> tokens, child_symbols |-> child_symbols,
     defined |-> defined]

\* The equation text x_{i} and its two tokens.
EqXi == <<"x", "_", "{", "i", "}">>

T0 == Token("x", 0, 0, 1)

T1 == Token("i", 1, 3, 4)

TokenLists == {<<>>, <<T0>>, <<T0, T1>>}

\* Nodes without children, and nodes with one child.
Leaves == {Node("mi", ts, <<>>, "None") : ts \in TokenLists}

Parents == {Node("msub", ts, <<c>>, "True") : ts \in TokenLists, c \in Leaves}

Forests == SeqsUpTo(Leaves \cup Parents, MaxSymbols)

\* One line of the tool's standard output (a JSON record); forest stands for
\* what parse_equation makes of its mathMl.
Line(success, i, equation, equation_start, errorMessage, forest) ==
    [success |-> success, i |-> i, tex_path |-> "main.tex", equation |-> equation,
     equation_start |-> equation_start, equation_depth |-> 0,
     context_tex |-> "context", errorMessage |-> errorMessage, forest |-> forest]

\* The outcome of subprocess.run for a document, and whether the document
\* has a table of detected equations at all.
ToolResult(has_input, returncode, lines) ==
    [has_input |-> has_input, returncode |-> returncode, lines |-> lines]

NoInput == ToolResult(FALSE, 0, <<>>)

ToolFailed == ToolResult(TRUE, 1, <<>>)

\* ------------------------------------------------------------------------
\* State
\* ------------------------------------------------------------------------
VARIABLES
    arxiv_ids,   \* self.arxiv_ids: the documents of the batch, in order
    tool,        \* per document: what the external tool returns (fixed)
    dirs,        \* per document: which output directories exist
    files,       \* per document: the five tables (exists, rows)
    log,         \* the log entries written so far
    pc,          \* "next" | "loaded" | "saving" | "finished" | "crashed"
    cur,         \* number of documents load has yielded in this run
    queue,       \* outcomes process has still to yield for the document
    run,         \* number of the current run of the command
    prev         \* the tables as the previous run left them

vars == <<arxiv_ids, tool, dirs, files, log, pc, cur, queue, run, prev>>

Docs == {"d1", "d2"}

Tables == {"parse_results", "tokens", "symbols", "symbol_tokens", "symbol_children"}

NoFile == [exists |-> FALSE, rows |-> <<>>]

NoFiles == [t \in Tables |-> NoFile]

NoDirs == [tokens_dir |-> FALSE, symbols_dir |-> FALSE]

\* file_utils.append_to_csv, once per row.
AppendRows(f, rows) ==
    IF rows = <<>> THEN f ELSE [exists |-> TRUE, rows |-> f.rows \o rows]

LogEntry(level, item) == [level |-> level, item |-> item]

\* ------------------------------------------------------------------------
\* load
\* ------------------------------------------------------------------------
\* The generator yields the next document after cleaning its two output
\* directories.
Load ==
    /\ pc = "next"
    /\ cur < Len(arxiv_ids)
    /\ LET arxiv_id == arxiv_ids[cur + 1]
       IN files' = [files EXCEPT ![arxiv_id] = NoFiles]
    /\ cur' = cur + 1
    /\ pc' = "loaded"
    /\ UNCHANGED <<arxiv_ids, tool, dirs, log, queue, run, prev>>

\* The generator is exhausted: the run is over.
LoadEnd ==
    /\ pc = "next"
    /\ cur = Len(arxiv_ids)
    /\ pc' = "finished"
    /\ UNCHANGED <<arxiv_ids, tool, dirs, files, log, cur, queue, run, prev>>

\* The command is run again on the same documents.
Rerun ==
    /\ pc \in {"finished", "crashed"}
    /\ run < MaxRuns
    /\ run' = run + 1
    /\ prev' = files
    /\ cur' = 0
    /\ queue' = <<>>
    /\ pc' = "next"
    /\ UNCHANGED <<arxiv_ids, tool, dirs, files, log>>

\* ------------------------------------------------------------------------
\* process
\* ------------------------------------------------------------------------
\* _get_symbol_data: one SymbolData per line of standard output.
SymbolData(arxiv_id, data) ==
    [arxiv_id |-> arxiv_id, success |-> data.success, equation_index |-> data.i,
     tex_path |-> data.tex_path, equation |-> data.equation,
     equation_start |-> data.equation_start,
     equation_depth |-> data.equation_depth, context_tex |-> data.context_tex,
     errorMessage |-> data.errorMessage,
     symbols |-> IF data.success THEN Some(data.forest) ELSE None]

get_symbol_data(arxiv_id, stdout) ==
    [k \in 1..Len(stdout) |-> SymbolData(arxiv_id, stdout[k])]

\* No table of equations for the document: a warning, nothing else.
ProcessMissing ==
    /\ pc = "loaded"
    /\ ~ tool[arxiv_ids[cur]].has_input
    /\ log' = Append(log, LogEntry("warning", arxiv_ids[cur]))
    /\ pc' = "next"
    /\ UNCHANGED <<arxiv_ids, tool, dirs, files, cur, queue, run, prev>>

\* The lines of the output yielded although the return code is nonzero.
FailedRun_Yields(item) ==
    [log |-> <<LogEntry("error", item)>>,
     outcomes |-> get_symbol_data(item, tool[item].lines)]

\* What a nonzero return code makes of the log and of the outcomes to save.
FailedRun(item) == [log |-> <<LogEntry("error", item)>>, outcomes |-> <<>>]

\* The tool ran and returned a nonzero status.
ProcessFailed ==
    /\ pc = "loaded"
    /\ tool[arxiv_ids[cur]].has_input
    /\ tool[arxiv_ids[cur]].returncode # 0
    /\ LET r == FailedRun(arxiv_ids[cur])
       IN /\ log' = log \o <<LogEntry("debug", "")>> \o r.log
          /\ queue' = r.outcomes
          /\ pc' = IF r.outcomes = <<>> THEN "next" ELSE "saving"
    /\ UNCHANGED <<arxiv_ids, tool, dirs, files, cur, run, prev>>

\* The tool ran and returned 0: its outcomes are yielded one by one.
ProcessOk ==
    /\ pc = "loaded"
    /\ tool[arxiv_ids[cur]].has_input
    /\ tool[arxiv_ids[cur]].returncode = 0
    /\ log' = Append(log, LogEntry("debug", ""))
    /\ queue' = get_symbol_data(arxiv_ids[cur], tool[arxiv_ids[cur]].lines)
    /\ pc' = IF queue' = <<>> THEN "next" ELSE "saving"
    /\ UNCHANGED <<arxiv_ids, tool, dirs, files, cur, run, prev>>

\* ------------------------------------------------------------------------
\* save
\* ------------------------------------------------------------------------
\* list.index(x): the position of the first element equal to x (0-based).
\* Only used when x is in the list; Contains tells whether index would raise.
Contains(l, x) == \E j \in 1..Len(l) : l[j] = x

Index(l, x) ==
    (CHOOSE j \in 1..Len(l) : l[j] = x /\ \A i \in 1..(j - 1) : l[i] # x) - 1

ParseResult(result) ==
    [arxiv_id |-> result.arxiv_id, success |-> result.success,
     equation_index |-> result.equation_index, tex_path |-> result.tex_path,
     equation |-> result.equation, errorMessage |-> result.errorMessage]

SerializableSymbol(result, symbol, symbol_index, t) ==
    [id_ |-> FormatId(result.equation_index, symbol_index),
     tex_path |-> result.tex_path,
     equation_index |-> result.equation_index,
     equation |-> result.equation,
     symbol_index |-> symbol_index,
     start |-> result.equation_start + t.start,
     end |-> result.equation_start + t.end,
     tex |-> t.tex,
     context_tex |-> result.context_tex,
     mathml |-> symbol.element,
     is_definition |-> (symbol.defined = "True"),
     relative_start |-> t.start,
     relative_end |-> t.end]

SerializableSymbolToken(result, symbol_index, token) ==
    [tex_path |-> result.tex_path, equation_index |-> result.equation_index,
     symbol_index |-> symbol_index, token_index |-> token.token_index]

SerializableChild(result, symbol_index, child_index) ==
    [tex_path |-> result.tex_path, equation_index |-> result.equation_index,
     equation |-> result.equation, symbol_index |-> symbol_index,
     child_index |-> child_index]

SerializableToken(result, token) ==
    [tex_path |-> result.tex_path,
     id_ |-> FormatId(result.equation_index, token.token_index),
     equation_index |-> result.equation_index,
     token_index |-> token.token_index,
     start |-> result.equation_start + token.start,
     end |-> result.equation_start + token.end,
     relative_start |-> token.start,
     relative_end |-> token.end,
     tex |-> Slice(result.equation, token.start, token.end),
     context_tex |-> result.context_tex,
     text |-> token.text,
     equation |-> result.equation,
     equation_depth |-> result.equation_depth]

\* The index under which the symbol at position k (1-based) of the forest is
\* saved: symbols.index(symbol).
SymbolIndex(symbols, k) == Index(symbols, symbols[k])

\* The loop with a child that is not in the forest passed over.
RECURSIVE SaveChildren_Skip(_, _, _, _, _, _)
SaveChildren_Skip(result, symbols, symbol_index, children, k, rows) ==
    IF k > Len(children) THEN [rows |-> rows, raised |-> FALSE]
    ELSE IF ~ Contains(symbols, children[k])
         THEN SaveChildren_Skip(result, symbols, symbol_index, children, k + 1, rows)
    ELSE SaveChildren_Skip(result, symbols, symbol_index, children, k + 1,
                           Append(rows, SerializableChild(result, symbol_index,
                                                          Index(symbols, children[k]))))

\* The loop over symbol.child_symbols from the k-th child on: the rows
\* appended, and whether symbols.index(child) raised ValueError.
RECURSIVE SaveChildren(_, _, _, _, _, _)
SaveChildren(result, symbols, symbol_index, children, k, rows) ==
    IF k > Len(children) THEN [rows |-> rows, raised |-> FALSE]
    ELSE IF ~ Contains(symbols, children[k]) THEN [rows |-> rows, raised |-> TRUE]
    ELSE SaveChildren(result, symbols, symbol_index, children, k + 1,
                      Append(rows, SerializableChild(result, symbol_index,
                                                     Index(symbols, children[k]))))

\* Only the first token of the symbol added.
AllTokensUpdate_First(all_tokens, tokens) == all_tokens \cup {tokens[1]}

\* all_tokens.update(symbol.tokens)
AllTokensUpdate(all_tokens, tokens) == all_tokens \cup Range(tokens)

\* Whether the symbol is skipped by the loop (it covers no token).
Skipped(symbol) == Len(symbol.tokens) = 0

\* The loop over the symbols from position k on. st holds the rows appended
\* to the three tables so far, all_tokens, and whether an exception was raised.
RECURSIVE SaveSymbols(_, _, _, _)
SaveSymbols(result, symbols, k, st) ==
    IF k > Len(symbols) THEN st
    ELSE IF Skipped(symbols[k]) THEN SaveSymbols(result, symbols, k + 1, st)
    ELSE LET symbol == symbols[k]
             symbol_index == SymbolIndex(symbols, k)
             t == get_tex(symbol, result.equation)
             ch == SaveChildren(result, symbols, symbol_index,
                                symbol.child_symbols, 1, <<>>)
             st2 == [symbols |-> Append(st.symbols,
                                        SerializableSymbol(result, symbol, symbol_index, t)),
                     symbol_tokens |-> st.symbol_tokens \o
                         [j \in 1..Len(symbol.tokens) |->
                             SerializableSymbolToken(result, symbol_index, symbol.tokens[j])],
                     symbol_children |-> st.symbol_children \o ch.rows,
                     all_tokens |-> AllTokensUpdate(st.all_tokens, symbol.tokens),
                     raised |-> ch.raised]
         IN IF ch.raised THEN st2 ELSE SaveSymbols(result, symbols, k + 1, st2)

\* The orders in which a set can be iterated.
Orders(S) == {o \in [1..Cardinality(S) -> S] : \A i, j \in 1..Cardinality(S) : o[i] = o[j] => i = j}

\* Whether the block that saves the symbol data is entered.
HasSymbolData(result) == ~ result.symbols.none /\ Len(result.symbols.list) > 0

\* The tables of the document after save(item, result), when the set
\* all_tokens is iterated in the given order (the order of a Python set of
\* tuples holding strings is not fixed across processes).
SavedFiles(f, result, st, order) ==
    LET f1 == [f EXCEPT !["parse_results"] = AppendRows(@, <<ParseResult(result)>>)]
    IN IF ~ HasSymbolData(result) THEN f1
       ELSE [f1 EXCEPT
               !["symbol_children"] = AppendRows([exists |-> TRUE, rows |-> @.rows],
                                                 st.symbol_children),
               !["symbols"] = AppendRows(@, st.symbols),
               !["symbol_tokens"] = AppendRows(@, st.symbol_tokens),
               !["tokens"] = IF st.raised THEN @
                             ELSE AppendRows(@, [j \in 1..Len(order) |->
                                                   SerializableToken(result, order[j])])]

NoRows == [symbols |-> <<>>, symbol_tokens |-> <<>>, symbol_children |-> <<>>,
           all_tokens |-> {}, raised |-> FALSE]

\* save(item, result) for the next outcome process yields.
Save ==
    /\ pc = "saving"
    /\ queue # <<>>
    /\ LET item == arxiv_ids[cur]
           result == Head(queue)
           st == IF HasSymbolData(result)
                 THEN SaveSymbols(result, result.symbols.list, 1, NoRows)
                 ELSE NoRows
       IN /\ dirs' = [dirs EXCEPT ![item] = [tokens_dir |-> TRUE, symbols_dir |-> TRUE]]
          /\ log' = Append(log, IF result.success /\ ~ result.symbols.none
                                THEN LogEntry("debug", "")
                                ELSE LogEntry("warning", item))
          /\ \E order \in Orders(st.all_tokens) :
                files' = [files EXCEPT ![item] = SavedFiles(@, result, st, order)]
          /\ queue' = Tail(queue)
          /\ pc' = IF st.raised THEN "crashed"
                   ELSE IF Tail(queue) = <<>> THEN "next" ELSE "saving"
    /\ UNCHANGED <<arxiv_ids, tool, cur, run, prev>>

\* ------------------------------------------------------------------------
\* Inputs
\* ------------------------------------------------------------------------
EquationStart(i) == 10 * (i + 1)

FailedLine(i) == Line(FALSE, i, EqXi, EquationStart(i), "ParseError", <<>>)

XiLine(i, forest) == Line(TRUE, i, EqXi, EquationStart(i), "", forest)

\* The lines a small document can have for its equation i.
SmallLines(i) ==
    {FailedLine(i), XiLine(i, <<>>), XiLine(i, <<Node("mi", <<T0, T1>>, <<>>, "None")>>)}

\* Outputs of at most n lines; the k-th line is about equation k - 1.
SmallOutputs(n) ==
    {ls \in SeqsUpTo(UNION {SmallLines(i) : i \in 0..(n - 1)}, n) :
        \A k \in 1..Len(ls) : ls[k].i = k - 1}

BatchResults ==
    {NoInput}
    \cup {ToolResult(TRUE, 1, ls) : ls \in SmallOutputs(1)}
    \cup {ToolResult(TRUE, 0, ls) : ls \in SmallOutputs(MaxEquations)}

\* The lines that may follow the first equation of a document: none, or one
\* small line for a second equation.
SecondLines == {<<>>} \cup {<<l>> : l \in SmallLines(1)}

\* The output for a document whose first equation has the given forest.
ForestResult(f, rest) == ToolResult(TRUE, 0, <<XiLine(0, f)>> \o rest)

\* Equation texts: concatenations of pieces, and some texts written out.
Pieces == {<<"{">>, <<"}">>, <<"\\", "m", "a", "t", "h", "r", "m", "{">>}

RECURSIVE Concat(_)
Concat(ps) == IF ps = <<>> THEN <<>> ELSE Head(ps) \o Concat(Tail(ps))

EqBrace == <<"{", "a", "+", "b", "}", "+", "c">>

EqMathrm == <<"\\", "m", "a", "t", "h", "r", "m", "{", "P", "}", "(", "x", "_", "i", ")">>

EqText == <<"\\", "t", "e", "x", "t", "{", "a", "}">>

EqMathrmAB == <<"\\", "m", "a", "t", "h", "r", "m", "{", "a", "b", "}">>

EqFrac == <<"\\", "f", "r", "a", "c", "{", "a", "}", "{", "b", "}">>

Equations == {Concat(ps) : ps \in SeqsUpTo(Pieces, MaxPieces)} \cup {EqBrace, EqMathrm, EqText, EqMathrmAB, EqFrac}

\* The token lists of a one-symbol forest over an equation text: one token of
\* any non-empty span inside the text, or two adjacent one-character tokens,
\* in either order.
Spans(eq) == {sp \in (0..Len(eq)) \X (0..Len(eq)) : sp[1] < sp[2]}

TexTokenLists(eq) ==
    {<<Token("a", 0, sp[1], sp[2])>> : sp \in Spans(eq)}
    \cup {<<Token("a", 0, o, o + 1), Token("b", 1, o + 1, o + 2)>> : o \in 0..(Len(eq) - 2)}
    \cup {<<Token("b", 1, o + 1, o + 2), Token("a", 0, o, o + 1)>> : o \in 0..(Len(eq) - 2)}

\* The output for a document of one equation with one symbol.
TexResult(eq, ts) ==
    ToolResult(TRUE, 0, <<Line(TRUE, 0, eq, 7, "", <<Node("mi", ts, <<>>, "None")>>)>>)

\* ------------------------------------------------------------------------
\* Specifications
\* ------------------------------------------------------------------------
InitState ==
    /\ dirs = [d \in Docs |-> NoDirs]
    /\ files = [d \in Docs |-> NoFiles]
    /\ log = <<>>
    /\ pc = "next"
    /\ cur = 0
    /\ queue = <<>>
    /\ run = 1
    /\ prev = [d \in Docs |-> NoFiles]

\* The tool's results when d1 is the only document of the batch.
OneDocument(r) == [d \in Docs |-> IF d = "d1" THEN r ELSE NoInput]

\* A batch of two small documents.
Init ==
    /\ arxiv_ids = <<"d1", "d2">>
    /\ \E r1, r2 \in BatchResults : tool = [d \in Docs |-> IF d = "d1" THEN r1 ELSE r2]
    /\ InitState

\* One document with a forest of the bound.
InitForest ==
    /\ arxiv_ids = <<"d1">>
    /\ \/ \E r \in {NoInput, ToolFailed} : tool = OneDocument(r)
       \/ \E f \in Forests : \E rest \in SecondLines : tool = OneDocument(ForestResult(f, rest))
    /\ InitState

\* One document with one equation and one symbol.
InitTex ==
    /\ arxiv_ids = <<"d1">>
    /\ \/ \E r \in {NoInput, ToolFailed} : tool = OneDocument(r)
       \/ \E eq \in Equations : \E ts \in TexTokenLists(eq) : tool = OneDocument(TexResult(eq, ts))
    /\ InitState

Next ==
    \/ Load
    \/ LoadEnd
    \/ Rerun
    \/ ProcessMissing
    \/ ProcessFailed
    \/ ProcessOk
    \/ Save

Spec == Init /\ [][Next]_vars

SpecForest == InitForest /\ [][Next]_vars

SpecTex == InitTex /\ [][Next]_vars

\* ------------------------------------------------------------------------
\* Vocabulary of the properties
\* ------------------------------------------------------------------------
Rows(d, t) == files[d][t].rows

\* The line of the tool's output and the symbol a symbol row was written for.
RowLine(d, r) == tool[d].lines[r.equation_index + 1]

RowSymbol(d, r) == RowLine(d, r).forest[r.symbol_index + 1]

\* The documents load has yielded in this run whose outcomes are all saved.
Completed ==
    IF pc \in {"next", "finished"} THEN {arxiv_ids[k] : k \in 1..cur} ELSE {}

\* The tool failed for the document.
Failing(d) == tool[d].has_input /\ tool[d].returncode # 0

ErrorEntries(l, d) == SelectSeq(l, LAMBDA e : e.level = "error" /\ e.item = d)

NoDuplicates(s) == \A i, j \in 1..Len(s) : s[i] = s[j] => i = j

\* The braces of s that have no partner in s, scanning from position k with
\* the given numbers of so far unmatched braces: <<opening, closing>>.
RECURSIVE Unmatched(_, _, _, _)
Unmatched(s, k, opening, closing) ==
    IF k > Len(s) THEN <<opening, closing>>
    ELSE IF s[k] = "{" THEN Unmatched(s, k + 1, opening + 1, closing)
    ELSE IF s[k] = "}" /\ opening > 0 THEN Unmatched(s, k + 1, opening - 1, closing)
    ELSE IF s[k] = "}" THEN Unmatched(s, k + 1, opening, closing + 1)
    ELSE Unmatched(s, k + 1, opening, closing)

\* No closing brace without an opening one before it.
NoUnopened(s) == Unmatched(s, 1, 0, 0)[2] = 0

\* No opening brace without a closing one after it.
NoUnclosed(s) == Unmatched(s, 1, 0, 0)[1] = 0

Balanced(s) == NoUnopened(s) /\ NoUnclosed(s)

\* The outcome save is about to be called with.
Saving == pc = "saving" /\ queue # <<>>

\* ------------------------------------------------------------------------
\* C1: a save of an outcome with success = true and an empty forest does not
\* raise, leaves the symbol_children file existing, and appends no row to the
\* symbol table or the token table.
\* ------------------------------------------------------------------------
C1_EmptyForestLeavesChildrenFile ==
    [][(Saving /\ Head(queue).success /\ ~ Head(queue).symbols.none
              /\ Head(queue).symbols.list = <<>>)
        => LET item == arxiv_ids[cur]
           IN /\ pc' # "crashed"
              /\ files'[item]["symbol_children"].exists
              /\ files'[item]["symbols"] = files[item]["symbols"]
              /\ files'[item]["tokens"] = files[item]["tokens"]]_vars

\* ------------------------------------------------------------------------
\* C2: every row of the symbol_children table has a child_index for which
\* the symbol table holds a row of the same equation with that symbol_index.
\* ------------------------------------------------------------------------
C2_ChildRowsResolve ==
    \A d \in Docs : \A k \in 1..Len(Rows(d, "symbol_children")) :
        LET c == Rows(d, "symbol_children")[k]
        IN \E j \in 1..Len(Rows(d, "symbols")) :
              /\ Rows(d, "symbols")[j].equation_index = c.equation_index
              /\ Rows(d, "symbols")[j].symbol_index = c.child_index

\* ------------------------------------------------------------------------
\* C3: once every outcome of a document is saved, the token table holds
\* exactly one row per token id that occurs in a symbol_tokens row, and no
\* row for any other id.
\* ------------------------------------------------------------------------
TokenIds(d) == [k \in 1..Len(Rows(d, "tokens")) |-> Rows(d, "tokens")[k].id_]

ReferencedIds(d) ==
    {FormatId(r.equation_index, r.token_index) : r \in Range(Rows(d, "symbol_tokens"))}

C3_TokenTableIsUnionOfReferences ==
    \A d \in Completed :
        /\ NoDuplicates(TokenIds(d))
        /\ Range(TokenIds(d)) = ReferencedIds(d)

\* A document of two equations is saved in which two symbols of one equation
\* share a token.
C3_Witness ==
    /\ pc = "finished"
    /\ \E r1, r2 \in Range(Rows("d1", "symbol_tokens")) :
          /\ r1.equation_index = r2.equation_index
          /\ r1.token_index = r2.token_index
          /\ r1.symbol_index # r2.symbol_index
    /\ \E r1, r2 \in Range(Rows("d1", "tokens")) : r1.equation_index # r2.equation_index

\* ------------------------------------------------------------------------
\* C4: the span of every symbol row contains the absolute span of every
\* token of its symbol.
\* ------------------------------------------------------------------------
C4_SymbolSpanContainsTokens ==
    \A d \in Docs : \A r \in Range(Rows(d, "symbols")) :
        \A t \in Range(RowSymbol(d, r).tokens) :
            /\ r.start <= RowLine(d, r).equation_start + t.start
            /\ r.end >= RowLine(d, r).equation_start + t.end

\* A symbol of two tokens whose start was moved back over a macro and whose
\* end was moved forward to a closing brace.
C4_Witness ==
    \E r \in Range(Rows("d1", "symbols")) :
        /\ Len(RowSymbol("d1", r).tokens) = 2
        /\ \A t \in Range(RowSymbol("d1", r).tokens) :
              r.relative_start < t.start /\ r.relative_end > t.end

\* ------------------------------------------------------------------------
\* C5: when the command has been run again to its end, every table is row
\* for row what the previous run left.
\* ------------------------------------------------------------------------
C5_SecondRunIdentical == (run >= 2 /\ pc = "finished") => files = prev

\* ------------------------------------------------------------------------
\* C6: for a document whose tool invocation returns a nonzero status nothing
\* is ever saved or written, process logs exactly one error naming the
\* document, and the run goes on to the next document.
\* ------------------------------------------------------------------------
C6_FailedDocumentWritesNothing ==
    [][/\ \A d \in Docs : Failing(d) =>
              /\ files'[d] = NoFiles
              /\ dirs'[d] = NoDirs
              /\ ~ (pc' = "saving" /\ arxiv_ids[cur'] = d)
       /\ (pc = "loaded" /\ Failing(arxiv_ids[cur])) =>
              /\ Len(ErrorEntries(log', arxiv_ids[cur])) = Len(ErrorEntries(log, arxiv_ids[cur])) + 1
              /\ SelectSeq(log', LAMBDA e : e.level # "debug") =
                    Append(SelectSeq(log, LAMBDA e : e.level # "debug"),
                           LogEntry("error", arxiv_ids[cur]))
              /\ files' = files
              /\ pc' = "next"]_vars

\* The tool failed for the first document and the second one has its rows.
C6_Witness ==
    /\ pc = "finished"
    /\ Failing("d1")
    /\ Len(ErrorEntries(log, "d1")) = 1
    /\ Rows("d2", "symbols") # <<>>

\* ------------------------------------------------------------------------
\* C7: no two rows of a document's symbol table have the same id
\* {equation_index}-{symbol_index}, whatever the forests of its equations.
\* ------------------------------------------------------------------------
C7_SymbolIdsUnique ==
    \A d \in Docs : NoDuplicates([k \in 1..Len(Rows(d, "symbols")) |-> Rows(d, "symbols")[k].id_])

\* ------------------------------------------------------------------------
\* C8: for the text {a+b}+c and a symbol whose tokens span 1..4 the span text
\* is {a+b} (as claimed); as amended: it is a+b, the span 1..4 unchanged, and
\* it is {a+b} for a symbol whose tokens span 0..4.
\* ------------------------------------------------------------------------
BraceRows(s, e) ==
    {r \in Range(Rows("d1", "symbols")) :
        /\ r.equation = EqBrace
        /\ MinStart(RowSymbol("d1", r).tokens, 1) = s
        /\ MaxEnd(RowSymbol("d1", r).tokens, 1) = e}

C9_Original ==
    \A r \in Range(Rows("d1", "symbols")) : Balanced(r.equation) => Balanced(r.tex)

C9_SpanClosesItsBraces ==
    \A r \in Range(Rows("d1", "symbols")) : Balanced(r.equation) => NoUnclosed(r.tex)

\* A span that was extended to take in a closing brace and that holds a
\* closing brace whose opening brace is outside it.
C9_Witness ==
    \E r \in Range(Rows("d1", "symbols")) :
        /\ Balanced(r.equation)
        /\ r.relative_end > MaxEnd(RowSymbol("d1", r).tokens, 1)
        /\ At(r.equation, MaxEnd(RowSymbol("d1", r).tokens, 1) - 1) # "}"
        /\ ~ NoUnopened(r.tex)

\* ------------------------------------------------------------------------
\* C10: a save of a forest in which a retained symbol lists a child that is
\* not in the forest ends in an error, and every symbol_children row carries
\* the index of a forest member that is a child of the row's symbol.
\* ------------------------------------------------------------------------
Dangling(result) ==
    /\ HasSymbolData(result)
    /\ \E n \in Range(result.symbols.list) :
          /\ ~ Skipped(n)
          /\ \E c \in Range(n.child_symbols) : ~ Contains(result.symbols.list, c)

C10_DanglingChildRaises ==
    [][Saving =>
        /\ Dangling(Head(queue)) => pc' = "crashed"
        /\ \A d \in Docs : \A r \in Range(files'[d]["symbol_children"].rows) :
              LET forest == tool[d].lines[r.equation_index + 1].forest
              IN /\ r.child_index \in 0..(Len(forest) - 1)
                 /\ r.symbol_index \in 0..(Len(forest) - 1)
                 /\ forest[r.child_index + 1] \in Range(forest[r.symbol_index + 1].child_symbols)]_vars

\* A save was left by the exception after the symbol's own row was written.
C10_Witness ==
    /\ pc = "crashed"
    /\ Rows("d1", "symbols") # <<>>
    /\ Rows("d1", "tokens") = <<>>

====
